---- MODULE Spec2Model ----
(***************************************************************************)
(* FBX2ITP: conversion of one FbxMesh into an ItpMesh::Mesh.               *)
(*                                                                         *)
(* The model follows src/FBX2ITP.cpp: ReadSkin (cluster scan, packing of   *)
(* the four strongest influences, bone list), the corner pass of           *)
(* ProcessMeshToItp (vertex deduplication through operator== of            *)
(* VertexData) and ReadBlendShapes.  Vectors of the program are functions  *)
(* over 0..n-1, so that indices are the program's indices.                 *)
(***************************************************************************)
EXTENDS Integers, Sequences, FiniteSets, TLC

VARIABLES
    scene,              \* the FbxMesh and its node tree (input, never written)
    pc,                 \* position in ProcessMeshToItp / ReadSkin / ReadBlendShapes
    clusters,           \* the clusters scanned so far, in scan order (input read so far)
    boneNameToIndex,    \* ReadSkin: link name -> uint8_t index
    nextBoneIndex,      \* ReadSkin: uint32_t
    boneNodes,          \* ReadSkin: vector<FbxNode*>
    boneBindMatrices,   \* ReadSkin: vector<FbxAMatrix>
    cpInfluences,       \* ReadSkin: per control point, vector of (bone, weight)
    cerr,               \* number of warnings written to std::cerr
    ctrlBones,          \* per control point, 4 bone bytes
    ctrlWeights,        \* per control point, 4 weight bytes
    anySkin,            \* ReadSkin: its return value
    i,                  \* ReadSkin: control point of the packing loop
    bi,                 \* ReadSkin: bone of the bone-list loop
    outBones,           \* out->bones
    hasSkin,            \* out->format.hasSkin
    corners,            \* the corners visited so far: control point, candidate, index
    vertexMap,          \* ProcessMeshToItp: unordered_map<VertexData, size_t>
    verts,              \* out->verts
    outVertexMap,       \* out->vertexMap: control point -> vector of vertex indices
    indices,            \* out->indices: one Triangle (index[0..2]) per polygon
    p,                  \* ProcessMeshToItp: polygon of the corner pass
    v,                  \* ProcessMeshToItp: corner of polygon p
    targets,            \* the target shapes visited so far (input read so far)
    blendShapes,        \* out->blendShapes
    ofs                 \* the .itpmesh3 file: what Mesh::WriteToJson has written

vars == <<scene, pc, clusters, boneNameToIndex, nextBoneIndex, boneNodes,
          boneBindMatrices, cpInfluences, cerr, ctrlBones, ctrlWeights, anySkin,
          i, bi, outBones, hasSkin, corners, vertexMap, verts, outVertexMap,
          indices, p, v, targets, blendShapes, ofs>>

skinVars == <<clusters, boneNameToIndex, nextBoneIndex, boneNodes, boneBindMatrices,
              cpInfluences, cerr, ctrlBones, ctrlWeights, anySkin, i, bi, outBones>>
meshVars == <<corners, vertexMap, verts, outVertexMap, indices, p, v>>
blendVars == <<targets, blendShapes>>
fileVars == <<ofs>>

(***************************************************************************)
(* Vectors (std::vector, arrays): functions over 0..n-1.                   *)
(***************************************************************************)
Size(f) == Cardinality(DOMAIN f)
EmptyVec == <<>>
PushBack(f, x) == [k \in 0..Size(f) |-> IF k < Size(f) THEN f[k] ELSE x]
Resized(f, n, fill) == [k \in 0..(n - 1) |-> IF k \in DOMAIN f THEN f[k] ELSE fill]
Min(a, b) == IF a < b THEN a ELSE b

(***************************************************************************)
(* Bounds of the model.                                                    *)
(***************************************************************************)
MaxPackClusters == 5    \* clusters of a scene of the packing study
MaxTreeClusters == 2    \* clusters of a scene of the bone-tree study
MaxTreeNodes == 3       \* nodes of the node tree of the bone-tree study
MaxCapTail == 3         \* clusters scanned after the 255th bone of the cap study
MaxExampleUnit == 3     \* raw weights of the 6 : 3 : 1 scene, in units
MaxBindClusters == 3    \* clusters of a scene of the bind-matrix study
MaxJsonPolys == 1       \* triangles of a scene of the file study
MaxJsonClusters == 2    \* clusters of a scene of the file study
MaxChannelPolys == 1    \* triangles of a scene of the channel study
MaxStagePolys == 1      \* triangles of a scene of the stage study
MaxStageClusters == 1   \* clusters of a scene of the stage study
MaxRankClusters == 3    \* clusters of the near-tie scene of the packing study

(***************************************************************************)
(* Scenes.  A scene is the part of the input that is fixed for the whole   *)
(* mesh: the node tree (parent pointer and name of every node, 0 = no      *)
(* parent) and the control points.  Cluster contents, corners and target   *)
(* shapes are read as the loops reach them.                                *)
(***************************************************************************)
NodeIds == 1..MaxTreeNodes
Names == 1..3           \* node names (name 0 is the empty string)

\* FbxNode::GetParent: node trees are trees, a parent has a smaller id here.
TreeParents == {f \in [NodeIds -> 0..MaxTreeNodes] : \A n \in NodeIds : f[n] < n}

GetParent(n) == scene.parent[n]
GetName(n) == scene.name[n]
GetControlPointsCount == scene.controlPointCount

\* FbxMesh::GetPolygonVertex (line 391): the control point of corner vv of
\* polygon pp
GetPolygonVertex(pp, vv) == (pp + vv) % scene.usedPoints

(***************************************************************************)
(* ReadSkin, cluster scan (FBX2ITP.cpp 155-232).                           *)
(*                                                                         *)
(* A cluster is its link node (0 = nullptr), the mesh-space bind matrix    *)
(* linkBindMat * meshBindMat.Inverse() it yields, and its control point    *)
(* index and weight arrays.  A matrix is [t, r]: t = 0 is the translation  *)
(* (0,0,0), r names the rest of the matrix.  Raw weights are whole         *)
(* multiples of one unit.                                                  *)
(***************************************************************************)
IdentityMatrix == [t |-> 0, r |-> 0]

\* line 174: the greatest index a bone can have
MaxBoneIndex == 255

\* the cap, one bone late
TooManyBonesLate(next) == next > MaxBoneIndex + 1

\* line 174: no index is left for a new bone name
TooManyBones(next) == next > MaxBoneIndex

\* no matrix is overwritten
ZeroTranslationNever(m) == FALSE

\* line 213: "only overwrite if currently identity translation"
ZeroTranslation(m) == m.t = 0

\* lines 225-228: the entries of a cluster that are dropped
SkippedEntry(e) == e.w <= 0 \/ e.cp < 0 \/ e.cp >= GetControlPointsCount

\* lines 221-230: cpInfluences after the entries 1..n of a cluster's arrays
RECURSIVE CollectInfluences(_, _, _, _)
CollectInfluences(inf, boneIndex, entries, n) ==
    IF n = 0 THEN inf
    ELSE LET before == CollectInfluences(inf, boneIndex, entries, n - 1)
             e == entries[n]
         IN  IF SkippedEntry(e) THEN before
             ELSE [before EXCEPT ![e.cp] =
                       PushBack(@, [first |-> boneIndex, second |-> e.w])]

\* one iteration of the loop over clusters (lines 163-231)
ScanCluster(link, bind, entries) ==
    /\ pc = "scan"
    /\ clusters' = PushBack(clusters, [link |-> link, bind |-> bind, entries |-> entries])
    /\ IF link = 0
       THEN UNCHANGED <<boneNameToIndex, nextBoneIndex, boneNodes, boneBindMatrices,
                        cpInfluences, cerr>>
       ELSE LET boneName == GetName(link) IN
            IF boneName \notin DOMAIN boneNameToIndex
            THEN IF TooManyBones(nextBoneIndex)
                 THEN /\ cerr' = cerr + 1
                      /\ UNCHANGED <<boneNameToIndex, nextBoneIndex, boneNodes,
                                     boneBindMatrices, cpInfluences>>
                 ELSE LET boneIndex == nextBoneIndex % 256 IN
                      /\ boneNameToIndex' =
                            [n \in DOMAIN boneNameToIndex \cup {boneName} |->
                                IF n = boneName THEN boneIndex ELSE boneNameToIndex[n]]
                      /\ nextBoneIndex' = nextBoneIndex + 1
                      /\ boneNodes' =
                            [Resized(boneNodes, nextBoneIndex + 1, 0)
                                EXCEPT ![boneIndex] = link]
                      /\ boneBindMatrices' =
                            [Resized(boneBindMatrices, nextBoneIndex + 1, IdentityMatrix)
                                EXCEPT ![boneIndex] = bind]
                      /\ cpInfluences' =
                            CollectInfluences(cpInfluences, boneIndex, entries, Len(entries))
                      /\ UNCHANGED cerr
            ELSE LET boneIndex == boneNameToIndex[boneName] IN
                 /\ boneBindMatrices' =
                       IF ZeroTranslation(boneBindMatrices[boneIndex])
                       THEN [boneBindMatrices EXCEPT ![boneIndex] = bind]
                       ELSE boneBindMatrices
                 /\ cpInfluences' =
                       CollectInfluences(cpInfluences, boneIndex, entries, Len(entries))
                 /\ UNCHANGED <<boneNameToIndex, nextBoneIndex, boneNodes, cerr>>
    /\ UNCHANGED <<scene, pc, ctrlBones, ctrlWeights, anySkin, i, bi, outBones, hasSkin>>
    /\ UNCHANGED <<meshVars, blendVars, fileVars>>

(***************************************************************************)
(* ReadSkin, packing loop (FBX2ITP.cpp 234-279).                           *)
(***************************************************************************)
ZeroBytes == [j \in 0..3 |-> 0]

\* the influences left as they were collected
SortOrdersLeftOut(inf, rem) == {[k \in 0..(Cardinality(rem) - 1) |-> k]}

\* lines 247-249: std::sort with "a.second > b.second" leaves the order of
\* influences of equal weight unspecified; every order it may produce, as
\* the vector of the positions taken from inf (of equal influences, which
\* no result tells apart, the one of the lowest position goes first)
RECURSIVE SortOrders(_, _)
SortOrders(inf, rem) ==
    IF rem = {} THEN {EmptyVec}
    ELSE UNION { { [k \in 0..(Cardinality(rem) - 1) |->
                       IF k = 0 THEN j ELSE rest[k - 1]] :
                   rest \in SortOrders(inf, rem \ {j}) } :
                 j \in {a \in rem :
                          /\ \A b \in rem : ~(inf[b].second > inf[a].second)
                          /\ \A b \in rem : inf[b] = inf[a] => a <= b} }

Sorted(inf, order) == [k \in DOMAIN inf |-> inf[order[k]]]

\* line 252
Take(inf) == Min(4, Size(inf))

\* lines 251-254: total of the first n influences
RECURSIVE Total(_, _)
Total(inf, n) == IF n = 0 THEN 0 ELSE Total(inf, n - 1) + inf[n - 1].second

\* the fraction of w / total * 255 is cut off
TruncatedByte(w, total) == (255 * w) \div total

\* lines 262-263: round(w / total * 255), halves away from zero; the
\* quotient is taken exactly
RoundedByte(w, total) == (2 * 255 * w + total) \div (2 * total)

\* lines 266-268: the byte of the last taken influence
LastByte(acc) == IF 255 - acc < 0 THEN 0 ELSE 255 - acc

\* lines 258-272: byteVal of slot j and acc before slot j
RECURSIVE AccBefore(_, _)
ByteVal(inf, j) ==
    IF j = Take(inf) - 1 THEN LastByte(AccBefore(inf, j))
    ELSE RoundedByte(inf[j].second, Total(inf, Take(inf)))
AccBefore(inf, j) == IF j = 0 THEN 0 ELSE AccBefore(inf, j - 1) + ByteVal(inf, j - 1)

\* line 256 (and 245): the packing branch is entered
HasTotal(inf) == Size(inf) > 0 /\ Total(inf, Take(inf)) > 0

\* the slots after the taken ones repeat the last taken bone
PackedBonesRepeated(inf) ==
    [j \in 0..3 |-> IF HasTotal(inf) THEN inf[Min(j, Take(inf) - 1)].first ELSE 0]

\* lines 242, 261 and 277
PackedBones(inf) ==
    [j \in 0..3 |-> IF HasTotal(inf) /\ j < Take(inf) THEN inf[j].first ELSE 0]
\* lines 243, 270 and 278
PackedWeights(inf) ==
    [j \in 0..3 |-> IF HasTotal(inf) /\ j < Take(inf) THEN ByteVal(inf, j) % 256 ELSE 0]

\* lines 234-238, reached when the loops over skins and clusters end
BeginPack ==
    /\ pc = "scan"
    /\ pc' = "pack"
    /\ ctrlBones' = Resized(ctrlBones, GetControlPointsCount, ZeroBytes)
    /\ ctrlWeights' = Resized(ctrlWeights, GetControlPointsCount, ZeroBytes)
    /\ anySkin' = FALSE
    /\ i' = 0
    /\ UNCHANGED <<scene, clusters, boneNameToIndex, nextBoneIndex, boneNodes,
                   boneBindMatrices, cpInfluences, cerr, bi, outBones, hasSkin>>
    /\ UNCHANGED <<meshVars, blendVars, fileVars>>

\* one iteration of the packing loop (lines 239-279)
PackControlPoint ==
    /\ pc = "pack"
    /\ i < GetControlPointsCount
    /\ \E order \in SortOrders(cpInfluences[i], DOMAIN cpInfluences[i]) :
         LET inf == Sorted(cpInfluences[i], order) IN
         /\ cpInfluences' = [cpInfluences EXCEPT ![i] = inf]
         /\ ctrlBones' = [ctrlBones EXCEPT ![i] = PackedBones(inf)]
         /\ ctrlWeights' = [ctrlWeights EXCEPT ![i] = PackedWeights(inf)]
         /\ anySkin' = (anySkin \/ HasTotal(inf))
    /\ i' = i + 1
    /\ UNCHANGED <<scene, pc, clusters, boneNameToIndex, nextBoneIndex, boneNodes,
                   boneBindMatrices, cerr, bi, outBones, hasSkin>>
    /\ UNCHANGED <<meshVars, blendVars, fileVars>>

(***************************************************************************)
(* ReadSkin, bone list (FBX2ITP.cpp 281-360).                              *)
(***************************************************************************)
DefaultBone == [name |-> 0, parentIndex |-> -1]

\* the walk stops at the first node
FindParentIndexDirect(parent) ==
    IF parent # 0 /\ GetName(parent) \in DOMAIN boneNameToIndex
    THEN boneNameToIndex[GetName(parent)]
    ELSE -1

\* lines 296-308: the walk up the node tree, from the node "parent"
RECURSIVE FindParentIndex(_)
FindParentIndex(parent) ==
    IF parent = 0 THEN -1
    ELSE IF GetName(parent) \in DOMAIN boneNameToIndex
         THEN boneNameToIndex[GetName(parent)]
         ELSE FindParentIndex(GetParent(parent))

\* lines 282-283, reached when the packing loop ends
BeginBones ==
    /\ pc = "pack"
    /\ i = GetControlPointsCount
    /\ pc' = "bones"
    /\ outBones' = Resized(EmptyVec, nextBoneIndex, DefaultBone)
    /\ bi' = 0
    /\ UNCHANGED <<scene, clusters, boneNameToIndex, nextBoneIndex, boneNodes,
                   boneBindMatrices, cpInfluences, cerr, ctrlBones, ctrlWeights,
                   anySkin, i, hasSkin>>
    /\ UNCHANGED <<meshVars, blendVars, fileVars>>

\* the bones are built from the nodes in the opposite order
BuildBoneFromLast ==
    /\ pc = "bones"
    /\ bi < nextBoneIndex
    /\ LET at == nextBoneIndex - 1 - bi
           node == IF at < Size(boneNodes) THEN boneNodes[at] ELSE 0
           bone == IF node # 0
                   THEN [name |-> GetName(node),
                         parentIndex |-> FindParentIndex(GetParent(node))]
                   ELSE DefaultBone
       IN  outBones' = [outBones EXCEPT ![bi] = bone]
    /\ bi' = bi + 1
    /\ UNCHANGED <<scene, pc, clusters, boneNameToIndex, nextBoneIndex, boneNodes,
                   boneBindMatrices, cpInfluences, cerr, ctrlBones, ctrlWeights,
                   anySkin, i, hasSkin>>
    /\ UNCHANGED <<meshVars, blendVars, fileVars>>

\* one iteration of the loop over bones (lines 284-358); the bind pose of
\* the bone is left out
BuildBone ==
    /\ pc = "bones"
    /\ bi < nextBoneIndex
    /\ LET node == IF bi < Size(boneNodes) THEN boneNodes[bi] ELSE 0
           bone == IF node # 0
                   THEN [name |-> GetName(node),
                         parentIndex |-> FindParentIndex(GetParent(node))]
                   ELSE DefaultBone
       IN  outBones' = [outBones EXCEPT ![bi] = bone]
    /\ bi' = bi + 1
    /\ UNCHANGED <<scene, pc, clusters, boneNameToIndex, nextBoneIndex, boneNodes,
                   boneBindMatrices, cpInfluences, cerr, ctrlBones, ctrlWeights,
                   anySkin, i, hasSkin>>
    /\ UNCHANGED <<meshVars, blendVars, fileVars>>

\* line 360 and the assignment of line 381
ReadSkinReturn ==
    /\ pc = "bones"
    /\ bi = nextBoneIndex
    /\ pc' = "mesh"
    /\ hasSkin' = anySkin
    /\ UNCHANGED <<scene, skinVars, meshVars, blendVars, fileVars>>

(***************************************************************************)
(* Floats.  A float is <<"num", n>> (the number n; <<"num", 0>> is +0.0),  *)
(* <<"negzero", 0>> (-0.0) or <<"nan", 0>> (a NaN).  The doubles of the    *)
(* scene are taken to be exactly representable as floats, so the casts of  *)
(* lines 400-412 keep them.                                                *)
(***************************************************************************)
F(n) == <<"num", n>>
NaN == <<"nan", 0>>
NegZero == <<"negzero", 0>>

\* the == of two floats: a NaN equals nothing, +0.0 equals -0.0
FloatEq(a, b) == a[1] # "nan" /\ b[1] # "nan" /\ a[2] = b[2]

\* a - b
FloatSub(a, b) ==
    IF a[1] = "nan" \/ b[1] = "nan" THEN NaN
    ELSE IF a[2] - b[2] # 0 THEN F(a[2] - b[2])
         ELSE IF a[1] = "negzero" /\ b[1] = "num" THEN NegZero ELSE F(0)

Vec3(x, y, z) == <<F(x), F(y), F(z)>>
ZeroVector3 == Vec3(0, 0, 0)
ZeroVector2 == <<F(0), F(0)>>
Vec3Sub(a, b) == [k \in 1..3 |-> FloatSub(a[k], b[k])]

\* an equality that leaves the uv out
VertexEqNoUV(a, b) ==
    /\ \A k \in 1..3 : FloatEq(a.pos[k], b.pos[k])
    /\ \A k \in 1..3 : FloatEq(a.norm[k], b.norm[k])
    /\ \A k \in 1..3 : FloatEq(a.tan[k], b.tan[k])
    /\ a.bones = b.bones
    /\ a.weights = b.weights

(***************************************************************************)
(* VertexData and its operator== (part_002 18-28).                         *)
(***************************************************************************)
VertexEq(a, b) ==
    /\ \A k \in 1..3 : FloatEq(a.pos[k], b.pos[k])
    /\ \A k \in 1..3 : FloatEq(a.norm[k], b.norm[k])
    /\ \A k \in 1..3 : FloatEq(a.tan[k], b.tan[k])
    /\ \A k \in 0..3 : a.bones[k] = b.bones[k]
    /\ \A k \in 0..3 : a.weights[k] = b.weights[k]
    /\ \A k \in 1..2 : FloatEq(a.uv[k], b.uv[k])

(***************************************************************************)
(* ProcessMeshToItp, corner pass (FBX2ITP.cpp 383-453).                    *)
(*                                                                         *)
(* The polygons are triangles (main triangulates the scene, line 604).     *)
(* A corner is read as its control point and its sample: the normal, the   *)
(* tangent and the uv that the elements of the mesh hold for it, and       *)
(* whether its uv is unmapped.                                             *)
(***************************************************************************)
\* lines 373-375
FormatHasNormal == scene.normalMode # "none"
FormatHasTan == scene.tangentMode # "none"
FormatHasUV == scene.hasUV

\* FbxHelper::GetNormalAt and GetTangentAt (part_003 4-63): a value is
\* returned for the mapping modes eByControlPoint and eByPolygonVertex
ElementValueAt(mode) == mode \in {"byControlPoint", "byPolygonVertex"}

\* FbxHelper::GetUVAt (part_003 66-87)
UVAt(sample) == scene.hasUV /\ ~sample.unmapped

\* the candidate without the bytes of the control point
CandidateWithoutSkin(cp, sample) ==
    [pos |-> scene.controlPoints[cp],
     norm |-> IF ElementValueAt(scene.normalMode) THEN sample.normal ELSE ZeroVector3,
     tan |-> IF ElementValueAt(scene.tangentMode) THEN sample.tangent ELSE ZeroVector3,
     uv |-> IF UVAt(sample)
            THEN <<sample.uv[1], FloatSub(F(1), sample.uv[2])>>
            ELSE ZeroVector2,
     bones |-> ZeroBytes,
     weights |-> ZeroBytes]

\* lines 393-435: the candidate of a corner
Candidate(cp, sample) ==
    [pos |-> scene.controlPoints[cp],
     norm |-> IF ElementValueAt(scene.normalMode) THEN sample.normal ELSE ZeroVector3,
     tan |-> IF ElementValueAt(scene.tangentMode) THEN sample.tangent ELSE ZeroVector3,
     uv |-> IF UVAt(sample)
            THEN <<sample.uv[1], FloatSub(F(1), sample.uv[2])>>
            ELSE ZeroVector2,
     bones |-> IF hasSkin /\ Size(ctrlBones) > cp THEN ctrlBones[cp] ELSE ZeroBytes,
     weights |-> IF hasSkin /\ Size(ctrlBones) > cp THEN ctrlWeights[cp] ELSE ZeroBytes]

\* no node of the map has a key equal to vert
FindNothing(map, vert) == {}

\* line 438: the nodes of the map that find(vert) may return
Find(map, vert) == {e \in map : VertexEq(e.key, vert)}

\* line 445
\* indices counted from one
NewIndexFromOne(map) == Cardinality(map) + 1

NewIndex(map) == Cardinality(map)

\* the index written without reversing the winding
TriangleSlotForward(corner) == corner

\* line 451
TriangleSlot(corner) == 2 - corner

ZeroTriangle == [k \in 0..2 |-> 0]

\* the index goes to the list of the control point of the first vertex
PushIndexToFirstOwner(map, cp, index) ==
    LET owner == IF DOMAIN map = {} THEN cp
                 ELSE CHOOSE c \in DOMAIN map : \E n \in DOMAIN map[c] : map[c][n] = 0
    IN  [c \in DOMAIN map \cup {owner} |->
            IF c = owner
            THEN PushBack(IF owner \in DOMAIN map THEN map[owner] ELSE EmptyVec, index)
            ELSE map[c]]

\* line 447: operator[] of out->vertexMap makes the list of the control
\* point when the map does not hold it, push_back appends the index
PushIndex(map, cp, index) ==
    [c \in DOMAIN map \cup {cp} |->
        IF c = cp
        THEN PushBack(IF cp \in DOMAIN map THEN map[cp] ELSE EmptyVec, index)
        ELSE map[c]]

\* an element mapped by control point holds one value per control point
SampleAllowed(cp, sample) ==
    \A k \in DOMAIN corners :
        corners[k].cp = cp =>
            /\ scene.normalMode = "byControlPoint" => corners[k].sample.normal = sample.normal
            /\ scene.tangentMode = "byControlPoint" => corners[k].sample.tangent = sample.tangent

\* lines 383-385, reached from line 381
BeginCorners(polygonCount) ==
    /\ pc = "mesh"
    /\ pc' = "corners"
    /\ indices' = Resized(EmptyVec, polygonCount, ZeroTriangle)
    /\ vertexMap' = {}
    /\ p' = 0
    /\ v' = 0
    /\ UNCHANGED <<scene, skinVars, hasSkin, corners, verts, outVertexMap, blendVars, fileVars>>

\* one iteration of the loop over the corners of polygon p (lines 389-452)
Corner(cp, sample) ==
    /\ pc = "corners"
    /\ p < Size(indices)
    /\ LET vert == Candidate(cp, sample)
           inMap == Find(vertexMap, vert)
       IN  \E index \in IF inMap # {} THEN {e.value : e \in inMap}
                        ELSE {NewIndex(vertexMap)} :
             /\ IF inMap # {}
                THEN UNCHANGED <<vertexMap, verts, outVertexMap>>
                ELSE /\ vertexMap' = vertexMap \cup {[key |-> vert, value |-> index]}
                     /\ verts' = PushBack(verts, vert)
                     /\ outVertexMap' = PushIndex(outVertexMap, cp, index)
             /\ indices' = [indices EXCEPT ![p][TriangleSlot(v)] = index]
             /\ corners' = PushBack(corners, [p |-> p, v |-> v, cp |-> cp, sample |-> sample,
                                              vert |-> vert, index |-> index])
    /\ IF v = 2 THEN p' = p + 1 /\ v' = 0 ELSE p' = p /\ v' = v + 1
    /\ UNCHANGED <<scene, pc, skinVars, hasSkin, blendVars, fileVars>>

\* the loop over polygons is left at any corner
FinishCornersEarly ==
    /\ pc = "corners"
    /\ p <= Size(indices)
    /\ pc' = IF scene.doBlendShapes THEN "blend" ELSE "done"
    /\ UNCHANGED <<scene, skinVars, hasSkin, meshVars, blendVars, fileVars>>

\* line 455, reached when the loop over polygons ends
FinishCorners ==
    /\ pc = "corners"
    /\ p = Size(indices)
    /\ pc' = IF scene.doBlendShapes THEN "blend" ELSE "done"
    /\ UNCHANGED <<scene, skinVars, hasSkin, meshVars, blendVars, fileVars>>

(***************************************************************************)
(* ReadBlendShapes (FBX2ITP.cpp 25-131).                                   *)
(*                                                                         *)
(* scene.channels lists the channels of the blend shape deformers of the   *)
(* mesh in the order of the loops of lines 40 and 46, each with its name   *)
(* and its number of target shapes.  A target shape is read as what the    *)
(* loop asks of it: whether it is there, its number of control points,     *)
(* its points, and for its normal and its tangent element the mapping      *)
(* mode and the value that the element holds for each control point.       *)
(* targets lists the target shapes that the loop of line 54 has taken.     *)
(***************************************************************************)
RECURSIVE TargetsBefore(_)
\* the number of target shapes of the channels before channel c
TargetsBefore(c) ==
    IF c = 0 THEN 0 ELSE TargetsBefore(c - 1) + scene.channels[c - 1].targetCount

TargetTotal == TargetsBefore(Size(scene.channels))

\* the channel c and the ordinal t of the loops of lines 46 and 54 when
\* done target shapes have been taken
ChannelOf(done) ==
    CHOOSE c \in 0..(Size(scene.channels) - 1) :
        TargetsBefore(c) <= done /\ done < TargetsBefore(c + 1)
OrdinalOf(done) == done - TargetsBefore(ChannelOf(done))

\* no target shape has a wrong count
CountMismatchNever(shape) == FALSE

\* line 62
CountMismatch(shape) == shape.count # scene.controlPointCount

\* every name ends in "_target" and the ordinal
BlendShapeNameSuffixed(c, t) == <<scene.channels[c].name, "_target", t>>

\* lines 70-73: the name of the channel, then "_target" and the ordinal
\* when the channel has several target shapes
BlendShapeName(c, t) ==
    IF scene.channels[c].targetCount > 1
    THEN <<scene.channels[c].name, "_target", t>>
    ELSE <<scene.channels[c].name>>

\* lines 75-86: the flags start as false (ItpMesh.h 71-72)
BlendFormat(shape) ==
    [hasNormal |-> FormatHasNormal /\ shape.normalMode = "byControlPoint",
     hasTan |-> FormatHasTan /\ shape.tangentMode = "byControlPoint"]

\* line 91: operator[] puts an empty list in the map under a key that it
\* does not hold; the keys held once the loop has been through control
\* points 0..(n - 1)
MapAfter(n) ==
    [c \in DOMAIN outVertexMap \cup 0..(n - 1) |->
        IF c \in DOMAIN outVertexMap THEN outVertexMap[c] ELSE EmptyVec]

\* line 91 reads element 0 of an empty list for these control points
NoRepresentative ==
    {c \in 0..(scene.controlPointCount - 1) :
        c \notin DOMAIN outVertexMap \/ Size(outVertexMap[c]) = 0}

\* lines 91-114: the delta of control point c; fill is what the default
\* constructor of line 93 leaves in a vector
Delta(shape, c, fill) ==
    LET baseVert == verts[outVertexMap[c][0]]
        format == BlendFormat(shape)
    IN  [pos |-> Vec3Sub(shape.points[c], baseVert.pos),
         norm |-> IF format.hasNormal THEN Vec3Sub(shape.normals[c], baseVert.norm) ELSE fill,
         tan |-> IF format.hasTan THEN Vec3Sub(shape.tangents[c], baseVert.tan) ELSE fill]

\* the representative alone gets the delta
RepresentativeOnly(map, c) == Resized(EmptyVec, 1, map[c][0])

\* line 116: the vertices that get the delta of control point c
BroadcastTo(map, c) == map[c]

RECURSIVE Broadcast(_, _, _, _)
\* lines 89-121: the loop over the control points from c on
Broadcast(deltas, shape, c, fill) ==
    IF c = scene.controlPointCount THEN deltas
    ELSE IF c \in NoRepresentative THEN Broadcast(deltas, shape, c + 1, fill)
    ELSE LET list == BroadcastTo(outVertexMap, c)
             written == {list[n] : n \in DOMAIN list}
         IN  Broadcast([vi \in DOMAIN deltas |->
                           IF vi \in written THEN Delta(shape, c, fill) ELSE deltas[vi]],
                       shape, c + 1, fill)

\* one delta for each control point
EmptyDeltasByControlPoint(fill) ==
    Resized(EmptyVec, scene.controlPointCount, [pos |-> fill, norm |-> fill, tan |-> fill])

\* line 88: the deltas before the loop
EmptyDeltas(fill) == Resized(EmptyVec, Size(verts), [pos |-> fill, norm |-> fill, tan |-> fill])

\* lines 27-37
BeginBlend ==
    /\ pc = "blend"
    /\ pc' = IF Size(scene.channels) = 0 \/ scene.controlPointCount = 0 THEN "done" ELSE "targets"
    /\ UNCHANGED <<scene, skinVars, hasSkin, meshVars, blendVars, fileVars>>

\* one iteration of the loop over the target shapes of a channel (lines
\* 54-128).  Reading element 0 of an empty list is undefined: the
\* program stops there (crash) or goes on with a value that it does not
\* use after line 114.
ReadTarget(shape, fill, crash) ==
    /\ pc = "targets"
    /\ Size(targets) < TargetTotal
    /\ LET c == ChannelOf(Size(targets))
           t == OrdinalOf(Size(targets))
           taken == PushBack(targets, [c |-> c, t |-> t, shape |-> shape])
       IN  IF shape.null
           THEN /\ targets' = taken
                /\ UNCHANGED <<pc, cerr, outVertexMap, blendShapes>>
           ELSE IF CountMismatch(shape)
           THEN /\ targets' = taken
                /\ cerr' = cerr + 1
                /\ UNCHANGED <<pc, outVertexMap, blendShapes>>
           ELSE IF NoRepresentative # {} /\ crash
           THEN /\ pc' = "crashed"
                /\ outVertexMap' = MapAfter(1 + CHOOSE c0 \in NoRepresentative :
                                                  \A c1 \in NoRepresentative : c0 <= c1)
                /\ UNCHANGED <<targets, cerr, blendShapes>>
           ELSE /\ targets' = taken
                /\ outVertexMap' = MapAfter(scene.controlPointCount)
                /\ blendShapes' = PushBack(blendShapes,
                     [name |-> BlendShapeName(c, t),
                      format |-> BlendFormat(shape),
                      deltas |-> Broadcast(EmptyDeltas(fill), shape, 0, fill)])
                /\ UNCHANGED <<pc, cerr>>
    /\ UNCHANGED <<scene, clusters, boneNameToIndex, nextBoneIndex, boneNodes, boneBindMatrices,
                   cpInfluences, ctrlBones, ctrlWeights, anySkin, i, bi, outBones, hasSkin,
                   corners, vertexMap, verts, indices, p, v, ofs>>

\* line 131, reached when the loops end
FinishBlend ==
    /\ pc = "targets"
    /\ Size(targets) = TargetTotal
    /\ pc' = "done"
    /\ UNCHANGED <<scene, skinVars, hasSkin, meshVars, blendVars, fileVars>>

(***************************************************************************)
(* The .itpmesh3 file (FBX2ITP.cpp 476-477; part_003 267-318, 382-456).    *)
(* The file is kept by its parts: the entries of "vertexformat", the rows  *)
(* of "vertices" and the rows of "indices", each in the order written;     *)
(* a row is the sequence of the numbers written between its brackets.      *)
(***************************************************************************)
NothingWritten == [vertexformat |-> <<>>, vertices |-> <<>>, indices |-> <<>>]

\* operator<< of a float under std::showpoint (FBX2ITP.cpp 476): the text
\* has a decimal point; numbers of the model need no more than 6 digits
FloatText(f) == <<"float", f>>

\* operator<< of static_cast<uint32_t>(byte): the value of the uint8_t, widened,
\* in decimal digits without a point
ByteText(b) == <<"integer", b % 256>>

FormatEntry(name, type, count) == [name |-> name, type |-> type, count |-> count]

\* VertexFormat::WriteToJson (part_003 267-318); the flags of out->format
\* are those of lines 373-375 and 381 of FBX2ITP.cpp
VertexFormatWriteToJson ==
    <<FormatEntry("position", "float", 3)>>
    \o (IF FormatHasNormal THEN <<FormatEntry("normal", "float", 3)>> ELSE <<>>)
    \o (IF FormatHasTan THEN <<FormatEntry("tangent", "float", 3)>> ELSE <<>>)
    \o (IF hasSkin THEN <<FormatEntry("bones", "byte", 4),
                          FormatEntry("weights", "byte", 4)>> ELSE <<>>)
    \o (IF FormatHasUV THEN <<FormatEntry("texcoord", "float", 2)>> ELSE <<>>)

\* a row with the numbers of every field, whatever the flags
WriteVertToJsonAllFields(vert) ==
    <<FloatText(vert.pos[1]), FloatText(vert.pos[2]), FloatText(vert.pos[3])>>
    \o <<FloatText(vert.norm[1]), FloatText(vert.norm[2]), FloatText(vert.norm[3])>>
    \o <<FloatText(vert.tan[1]), FloatText(vert.tan[2]), FloatText(vert.tan[3])>>
    \o [k \in 1..4 |-> ByteText(vert.bones[k - 1])]
    \o [k \in 1..4 |-> ByteText(vert.weights[k - 1])]
    \o <<FloatText(vert.uv[1]), FloatText(vert.uv[2])>>

\* Mesh::WriteVertToJson (part_003 403-432)
WriteVertToJson(vert) ==
    <<FloatText(vert.pos[1]), FloatText(vert.pos[2]), FloatText(vert.pos[3])>>
    \o (IF FormatHasNormal
        THEN <<FloatText(vert.norm[1]), FloatText(vert.norm[2]), FloatText(vert.norm[3])>>
        ELSE <<>>)
    \o (IF FormatHasTan
        THEN <<FloatText(vert.tan[1]), FloatText(vert.tan[2]), FloatText(vert.tan[3])>>
        ELSE <<>>)
    \o (IF hasSkin
        THEN [k \in 1..4 |-> ByteText(vert.bones[k - 1])]
             \o [k \in 1..4 |-> ByteText(vert.weights[k - 1])]
        ELSE <<>>)
    \o (IF FormatHasUV THEN <<FloatText(vert.uv[1]), FloatText(vert.uv[2])>> ELSE <<>>)

\* Triangle::WriteToJson (part_003 382-386)
TriangleWriteToJson(tri) == <<tri[0], tri[1], tri[2]>>

\* what verts[0] and indices[0] may read when the vector is empty: the
\* element is outside the storage of the vector
UnknownVerts ==
    {[pos |-> Vec3(x, x, x), norm |-> Vec3(x, x, x), tan |-> Vec3(x, x, x),
      uv |-> <<F(x), F(x)>>, bones |-> [j \in 0..3 |-> x], weights |-> [j \in 0..3 |-> x]] :
        x \in {0, 7}}
UnknownTriangles == {[k \in 0..2 |-> x] : x \in {0, 7}}

\* Mesh::WriteToJson up to the vertex format (part_003 388-396), entered
\* from line 477 of FBX2ITP.cpp when ProcessMeshToItp has returned
MeshWriteToJson ==
    /\ pc = "done"
    /\ pc' = "vertices"
    /\ ofs' = [ofs EXCEPT !.vertexformat = VertexFormatWriteToJson]
    /\ UNCHANGED <<scene, skinVars, hasSkin, meshVars, blendVars>>

\* Mesh::WriteVertsToJson (part_003 434-445), one row per step: verts[0] is
\* written before the loop tests anything, rows 1.. under i < verts.size()
WriteVertsToJson(crash) ==
    /\ pc = "vertices"
    /\ Len(ofs.vertices) = 0 \/ Len(ofs.vertices) < Size(verts)
    /\ IF Size(verts) = 0 /\ crash
       THEN /\ pc' = "crashed"
            /\ UNCHANGED ofs
       ELSE /\ \E vert \in IF Size(verts) = 0 THEN UnknownVerts
                           ELSE {verts[Len(ofs.vertices)]} :
                 ofs' = [ofs EXCEPT !.vertices = Append(@, WriteVertToJson(vert))]
            /\ UNCHANGED pc
    /\ UNCHANGED <<scene, skinVars, hasSkin, meshVars, blendVars>>

\* Mesh::WriteIndicesToJson (part_003 446-456) and the end of
\* Mesh::WriteToJson (398-400): indices[0] is written unconditionally
WriteIndicesToJson(crash) ==
    /\ pc = "vertices"
    /\ Len(ofs.vertices) > 0
    /\ Len(ofs.vertices) >= Size(verts)
    /\ IF Size(indices) = 0 /\ crash
       THEN /\ pc' = "crashed"
            /\ UNCHANGED ofs
       ELSE /\ pc' = "written"
            /\ \E first \in IF Size(indices) = 0 THEN UnknownTriangles ELSE {indices[0]} :
                 ofs' = [ofs EXCEPT !.indices =
                            <<TriangleWriteToJson(first)>>
                            \o [k \in 1..(Size(indices) - 1) |->
                                   TriangleWriteToJson(indices[k])]]
    /\ UNCHANGED <<scene, skinVars, hasSkin, meshVars, blendVars>>

(***************************************************************************)
(* ProcessMeshToItp up to the call of ReadSkin (FBX2ITP.cpp 363-381) and   *)
(* the head of ReadSkin (140-153).                                         *)
(***************************************************************************)
InitOf(sc) ==
    /\ scene = sc
    /\ pc = "start"
    /\ clusters = EmptyVec
    /\ boneNameToIndex = EmptyVec
    /\ nextBoneIndex = 0
    /\ boneNodes = EmptyVec
    /\ boneBindMatrices = EmptyVec
    /\ cpInfluences = EmptyVec
    /\ cerr = 0
    /\ ctrlBones = EmptyVec
    /\ ctrlWeights = EmptyVec
    /\ anySkin = FALSE
    /\ i = 0
    /\ bi = 0
    /\ outBones = EmptyVec
    /\ hasSkin = FALSE
    /\ corners = EmptyVec
    /\ vertexMap = {}
    /\ verts = EmptyVec
    /\ outVertexMap = EmptyVec
    /\ indices = EmptyVec
    /\ p = 0
    /\ v = 0
    /\ targets = EmptyVec
    /\ blendShapes = EmptyVec
    /\ ofs = NothingWritten

\* line 380: ReadSkin is entered (its lines 140-153) when s_doSkinning is set
ProcessMeshStart ==
    /\ pc = "start"
    /\ IF scene.doSkinning
       THEN /\ pc' = "scan"
            /\ cpInfluences' = Resized(EmptyVec, GetControlPointsCount, EmptyVec)
       ELSE /\ pc' = "mesh"
            /\ UNCHANGED cpInfluences
    /\ UNCHANGED <<scene, clusters, boneNameToIndex, nextBoneIndex, boneNodes,
                   boneBindMatrices, cerr, ctrlBones, ctrlWeights, anySkin, i, bi,
                   outBones, hasSkin>>
    /\ UNCHANGED <<meshVars, blendVars, fileVars>>

\* the control points at the positions (x, 0, 0) for the x of xs
Points(xs) == [c \in 0..(Len(xs) - 1) |-> Vec3(xs[c + 1], 0, 0)]

\* a mesh of two control points at one position without normals, tangents,
\* uvs or blend shapes, under two nodes without parents, named 1 and 2;
\* the corners of its polygons go round its control points;
\* s_doSkinning is set, s_doBlendShapes is not
FlatScene ==
    [kind |-> "flat", parent |-> <<0, 0>>, name |-> <<1, 2>>,
     controlPointCount |-> 2, controlPoints |-> Points(<<1, 1>>), usedPoints |-> 2,
     normalMode |-> "none", tangentMode |-> "none", hasUV |-> FALSE,
     samples |-> {}, channels |-> EmptyVec,
     doSkinning |-> TRUE, doBlendShapes |-> FALSE]

(***************************************************************************)
(* Packing study: one control point, two bone nodes of different names,    *)
(* clusters of one kept entry each, followed up to the end of the packing   *)
(* loop.  The raw weights 503, 503, 268 and 1 are    *)
(* 100.6, 100.6, 53.6 and 0.2 of 255 when they make up the total.          *)
(***************************************************************************)
PackScene == [FlatScene EXCEPT !.kind = "pack", !.controlPointCount = 1]

\* the clusters of the study: one entry for control point 0, or three
\* entries that lines 225-228 drop followed by one that they keep
PackClusters ==
    {[link |-> 1, entries |-> <<[cp |-> 0, w |-> 503]>>],
     [link |-> 2, entries |-> <<[cp |-> 0, w |-> 503]>>],
     [link |-> 2, entries |-> <<[cp |-> 0, w |-> 268]>>],
     [link |-> 1, entries |-> <<[cp |-> 0, w |-> 1]>>],
     [link |-> 1, entries |-> <<[cp |-> 0, w |-> 0], [cp |-> 1, w |-> 1],
                               [cp |-> -1, w |-> 1], [cp |-> 0, w |-> 1]>>]}

\* ten bone nodes without parents, each of its own name, and one control
\* point: the clusters link the nodes in turn, so that node n gets bone
\* index n - 1
ExampleNodes == 1..10

ExampleScene ==
    [FlatScene EXCEPT !.kind = "example", !.parent = [n \in ExampleNodes |-> 0],
                      !.name = [n \in ExampleNodes |-> n], !.controlPointCount = 1]

\* one control point and two bone nodes: every cluster holds one of three
\* raw weights, 100.4, 77.4 and 77.2 of 255 when they make up the total
RankScene == [FlatScene EXCEPT !.kind = "rank", !.controlPointCount = 1]

RankWeights == {1004, 774, 772}

InitPack == InitOf(PackScene) \/ InitOf(ExampleScene) \/ InitOf(RankScene)

ScanPackCluster ==
    /\ scene.kind = "pack"
    /\ Size(clusters) < MaxPackClusters
    /\ \E cl \in PackClusters : ScanCluster(cl.link, IdentityMatrix, cl.entries)

\* the clusters of bones 3, 7 and 9 hold raw weights in the ratio 6 : 3 : 1
\* for control point 0, the others hold nothing or an entry that lines
\* 225-228 drop
ScanExampleCluster ==
    /\ scene.kind = "example"
    /\ Size(clusters) < Cardinality(ExampleNodes)
    /\ LET bone == Size(clusters)
           unit == clusters[3].entries[1].w \div 6
       IN  \E entries \in
                 IF bone = 3 THEN {<<[cp |-> 0, w |-> 6 * u]>> : u \in 1..MaxExampleUnit}
                 ELSE IF bone = 7 THEN {<<[cp |-> 0, w |-> 3 * unit]>>}
                 ELSE IF bone = 9 THEN {<<[cp |-> 0, w |-> unit]>>}
                 ELSE {<<>>, <<[cp |-> 0, w |-> 0]>>} :
              ScanCluster(bone + 1, IdentityMatrix, entries)

ScanRankCluster ==
    /\ scene.kind = "rank"
    /\ Size(clusters) < MaxRankClusters
    /\ \E link \in {1, 2}, w \in RankWeights :
         ScanCluster(link, IdentityMatrix, <<[cp |-> 0, w |-> w]>>)

NextPack ==
    \/ ProcessMeshStart
    \/ ScanPackCluster
    \/ ScanExampleCluster
    \/ ScanRankCluster
    \/ BeginPack
    \/ PackControlPoint

SpecPack == InitPack /\ [][NextPack]_vars

(***************************************************************************)
(* Bone-tree study: every node tree of MaxTreeNodes nodes, every naming    *)
(* of the nodes with three names (nodes may share a name), one control     *)
(* point; a cluster links any node or none and holds one entry.            *)
(***************************************************************************)
\* the namings of the nodes, up to a renaming: a node has the name of a
\* node before it or the first name that none of them has
TreeNames ==
    {nm \in [NodeIds -> Names] :
        \A n \in NodeIds : \A k \in 1..(nm[n] - 1) : \E m \in 1..(n - 1) : nm[m] = k}

TreeScenes ==
    {[FlatScene EXCEPT !.kind = "tree", !.parent = par, !.name = nm,
                       !.controlPointCount = 1] :
        par \in TreeParents, nm \in TreeNames}

InitTree == \E sc \in TreeScenes : InitOf(sc)

ScanTreeCluster ==
    /\ scene.kind = "tree"
    /\ Size(clusters) < MaxTreeClusters
    /\ \E link \in 0..MaxTreeNodes :
         ScanCluster(link, IdentityMatrix, <<[cp |-> 0, w |-> 1]>>)

NextTree ==
    \/ ProcessMeshStart
    \/ ScanTreeCluster
    \/ BeginPack
    \/ PackControlPoint
    \/ BeginBones
    \/ BuildBone
    \/ ReadSkinReturn

SpecTree == InitTree /\ [][NextTree]_vars

(***************************************************************************)
(* Cap study: MaxBoneIndex + MaxCapTail nodes without parents, each of     *)
(* its own name.  The first MaxBoneIndex clusters link one new node each   *)
(* and hold no entry; each of the MaxCapTail clusters after them links     *)
(* no node, node 1 or a new node, and holds no entry or one entry.  The    *)
(* study follows the cluster scan.                                         *)
(***************************************************************************)
CapNodes == 1..(MaxBoneIndex + MaxCapTail)

CapScene ==
    [FlatScene EXCEPT !.kind = "cap", !.parent = [n \in CapNodes |-> 0],
                      !.name = [n \in CapNodes |-> n], !.controlPointCount = 1]

InitCap == InitOf(CapScene)

ScanCapCluster ==
    /\ scene.kind = "cap"
    /\ Size(clusters) < MaxBoneIndex + MaxCapTail
    /\ IF Size(clusters) < MaxBoneIndex
       THEN ScanCluster(Size(clusters) + 1, IdentityMatrix, <<>>)
       ELSE \E link \in {0, 1, Size(clusters) + 1},
               entries \in {<<>>, <<[cp |-> 0, w |-> 1]>>} :
                ScanCluster(link, IdentityMatrix, entries)

NextCap ==
    \/ ProcessMeshStart
    \/ ScanCapCluster

SpecCap == InitCap /\ [][NextCap]_vars

(***************************************************************************)
(* Bind-matrix study: two bone nodes, of two names or of one, and up to    *)
(* MaxBindClusters clusters; a cluster links one of the nodes or none and  *)
(* has one of four bind matrices: two of zero translation and two of       *)
(* other translations.  The study follows the cluster scan.                *)
(***************************************************************************)
BindScenes ==
    {[FlatScene EXCEPT !.kind = "bind", !.name = nm, !.controlPointCount = 1] :
        nm \in {<<1, 2>>, <<1, 1>>}}

\* localBind of lines 197 and 209: its translation t and the rest r
BindMatrices == {[t |-> 0, r |-> 1], [t |-> 0, r |-> 2], [t |-> 1, r |-> 1], [t |-> 2, r |-> 1]}

InitBind == \E sc \in BindScenes : InitOf(sc)

ScanBindCluster ==
    /\ scene.kind = "bind"
    /\ Size(clusters) < MaxBindClusters
    /\ \E link \in 0..2, bind \in BindMatrices : ScanCluster(link, bind, <<>>)

NextBind ==
    \/ ProcessMeshStart
    \/ ScanBindCluster

SpecBind == InitBind /\ [][NextBind]_vars

(***************************************************************************)
(* Corner study: three control points, up to MaxPolys triangles that go    *)
(* round them (0 1 2, 1 2 0, 2 0 1), each corner with one of the two       *)
(* samples of the scene.  The scenes vary the normal (two normals; a NaN;  *)
(* +0.0 and -0.0), the tangent, the uv, the positions and, with up to      *)
(* MaxMeshClusters clusters, the packed influences of the control points.  *)
(***************************************************************************)
MaxPolys == 2
MaxMeshClusters == 2

Sample0 ==
    [normal |-> Vec3(0, 0, 1), tangent |-> Vec3(1, 0, 0), uv |-> <<F(0), F(0)>>,
     unmapped |-> FALSE]

NormalScene(points, normals) ==
    [FlatScene EXCEPT !.kind = "mesh", !.doSkinning = FALSE,
                      !.controlPointCount = Size(points), !.usedPoints = 3,
                      !.controlPoints = points, !.normalMode = "byPolygonVertex",
                      !.samples = {[Sample0 EXCEPT !.normal = n] : n \in normals}]

ChannelScene(samples) ==
    [FlatScene EXCEPT !.kind = "mesh", !.doSkinning = FALSE,
                      !.controlPointCount = 3, !.usedPoints = 3,
                      !.controlPoints = Points(<<1, 1, 1>>),
                      !.normalMode = "byControlPoint",
                      !.tangentMode = "byPolygonVertex", !.hasUV = TRUE,
                      !.samples = samples]

MeshScenes ==
    {NormalScene(Points(xs), {Vec3(0, 0, 1), Vec3(0, 1, 0)}) :
        xs \in {<<1, 1, 1>>, <<1, 1, 2>>, <<1, 2, 3>>}}
    \cup {NormalScene(Points(<<1, 1, 1>>), {<<NaN, F(0), F(1)>>, Vec3(0, 0, 1)}),
          NormalScene(Points(<<1, 1, 1>>), {<<F(0), F(0), F(1)>>, <<NegZero, F(0), F(1)>>}),
          ChannelScene({Sample0, [Sample0 EXCEPT !.tangent = Vec3(0, 1, 0)]}),
          ChannelScene({Sample0, [Sample0 EXCEPT !.uv = <<F(0), F(1)>>]}),
          [FlatScene EXCEPT !.kind = "mesh", !.controlPointCount = 3, !.usedPoints = 3,
                            !.controlPoints = Points(<<1, 1, 1>>), !.samples = {Sample0}]}

InitMesh == \E sc \in MeshScenes : InitOf(sc)

MeshClusters ==
    {[link |-> 1, entries |-> <<[cp |-> 0, w |-> 1]>>],
     [link |-> 2, entries |-> <<[cp |-> 1, w |-> 1]>>],
     [link |-> 1, entries |-> <<[cp |-> 0, w |-> 1], [cp |-> 1, w |-> 1]>>]}

ScanMeshCluster ==
    /\ scene.kind = "mesh"
    /\ Size(clusters) < MaxMeshClusters
    /\ \E cl \in MeshClusters : ScanCluster(cl.link, IdentityMatrix, cl.entries)

BeginMeshCorners ==
    /\ scene.kind = "mesh"
    /\ \E polygonCount \in 0..MaxPolys : BeginCorners(polygonCount)

MeshCorner ==
    /\ scene.kind = "mesh"
    /\ \E sample \in scene.samples :
         /\ SampleAllowed(GetPolygonVertex(p, v), sample)
         /\ Corner(GetPolygonVertex(p, v), sample)

NextMesh ==
    \/ ProcessMeshStart
    \/ ScanMeshCluster
    \/ BeginPack
    \/ PackControlPoint
    \/ BeginBones
    \/ BuildBone
    \/ ReadSkinReturn
    \/ BeginMeshCorners
    \/ MeshCorner
    \/ FinishCorners

SpecMesh == InitMesh /\ [][NextMesh]_vars

(***************************************************************************)
(* What the clusters scanned so far say about control point c, read from   *)
(* the input alone: the (bone, raw weight) pairs of positive weight that   *)
(* the clusters of a registered bone name hold for c, in scan order.       *)
(***************************************************************************)
RECURSIVE EntriesFor(_, _, _, _)
EntriesFor(c, bone, entries, n) ==
    IF n = 0 THEN EmptyVec
    ELSE LET before == EntriesFor(c, bone, entries, n - 1) IN
         IF entries[n].cp = c /\ entries[n].w > 0
         THEN PushBack(before, [first |-> bone, second |-> entries[n].w])
         ELSE before

Concat(f, g) ==
    [k \in 0..(Size(f) + Size(g) - 1) |-> IF k < Size(f) THEN f[k] ELSE g[k - Size(f)]]

Accepted(cl) == cl.link # 0 /\ GetName(cl.link) \in DOMAIN boneNameToIndex

RECURSIVE RawUpTo(_, _)
RawUpTo(c, n) ==
    IF n = 0 THEN EmptyVec
    ELSE LET cl == clusters[n - 1] IN
         IF Accepted(cl)
         THEN Concat(RawUpTo(c, n - 1),
                     EntriesFor(c, boneNameToIndex[GetName(cl.link)],
                                cl.entries, Len(cl.entries)))
         ELSE RawUpTo(c, n - 1)

RawInfluences(c) == RawUpTo(c, Size(clusters))

Count(f, x) == Cardinality({k \in DOMAIN f : f[k] = x})
SameBag(f, g) ==
    /\ Size(f) = Size(g)
    /\ \A k \in DOMAIN f : Count(f, f[k]) = Count(g, f[k])

SumBytes(b) == b[0] + b[1] + b[2] + b[3]

\* the control points the packing loop has been through
Packed == IF pc \in {"start", "scan"} THEN {} ELSE 0..(i - 1)

(***************************************************************************)
(* C3.  Every packed control point with at least one influence of          *)
(* positive raw weight has weight bytes that sum to exactly 255, and       *)
(* every packed control point without one has four weight bytes 0.         *)
(***************************************************************************)
C3_WeightSum ==
    \A c \in Packed :
        IF Size(RawInfluences(c)) > 0
        THEN SumBytes(ctrlWeights[c]) = 255
        ELSE ctrlWeights[c] = ZeroBytes

(***************************************************************************)
(* C9.  For every packed control point with at least one influence of      *)
(* positive raw weight, the influences are held in non-increasing order    *)
(* of raw weight, they are the influences the clusters gave, and the bone  *)
(* bytes of slots 0..take-1, take = min(4, count), are the bones of the    *)
(* first take of them: the taken ones are of greatest raw weight, and      *)
(* slot 0 holds the bone of an influence of the maximum raw weight.        *)
(***************************************************************************)
C9_WeightRanking ==
    \A c \in Packed :
        LET raw == RawInfluences(c)
            inf == cpInfluences[c]
        IN  Size(raw) > 0 =>
              /\ SameBag(inf, raw)
              /\ \A j \in DOMAIN inf, k \in DOMAIN inf :
                    j < k => inf[j].second >= inf[k].second
              /\ \A j \in 0..(Min(4, Size(raw)) - 1) : ctrlBones[c][j] = inf[j].first
              /\ \E k \in DOMAIN raw :
                    /\ raw[k].first = ctrlBones[c][0]
                    /\ \A m \in DOMAIN raw : raw[k].second >= raw[m].second

\* five influences given in increasing order of weight, of two bones
C9_Witness ==
    /\ pc = "pack"
    /\ i = 1
    /\ Size(RawInfluences(0)) = 5
    /\ RawInfluences(0)[0].second < RawInfluences(0)[4].second
    /\ RawInfluences(0)[0].first # RawInfluences(0)[4].first

(***************************************************************************)
(* C4.  When ReadSkin has returned, following parentIndex from any bone    *)
(* of the bone list reaches -1 within at most (bone count) steps.          *)
(***************************************************************************)
RECURSIVE ReachesRoot(_, _)
ReachesRoot(b, steps) ==
    IF b = -1 THEN TRUE
    ELSE IF steps = 0 THEN FALSE
         ELSE ReachesRoot(outBones[b].parentIndex, steps - 1)

C4_BoneTreeAcyclic ==
    pc = "mesh" => \A b \in DOMAIN outBones : ReachesRoot(b, Size(outBones))

(***************************************************************************)
(* C10.  During the cluster scan the registered bone names have the        *)
(* indices 0..nextBoneIndex-1, one each, and nextBoneIndex is at most      *)
(* 256; a cluster of a new link name met when 256 names are registered     *)
(* adds one warning, no influence and no bone, and the scan goes on: a     *)
(* later cluster of a registered name still adds its influence.            *)
(***************************************************************************)
BonesRegistered ==
    /\ nextBoneIndex <= 256
    /\ Cardinality(DOMAIN boneNameToIndex) = nextBoneIndex
    /\ \A n \in DOMAIN boneNameToIndex : boneNameToIndex[n] \in 0..(nextBoneIndex - 1)
    /\ \A n \in DOMAIN boneNameToIndex, m \in DOMAIN boneNameToIndex :
          n # m => boneNameToIndex[n] # boneNameToIndex[m]

LastCluster == clusters[Size(clusters) - 1]

ClusterScanned == Size(clusters') = Size(clusters) + 1

OverflowRejected ==
    (/\ ClusterScanned
     /\ nextBoneIndex = 256
     /\ LastCluster'.link # 0
     /\ GetName(LastCluster'.link) \notin DOMAIN boneNameToIndex)
        => /\ cerr' = cerr + 1
           /\ cpInfluences' = cpInfluences
           /\ boneNameToIndex' = boneNameToIndex
           /\ nextBoneIndex' = nextBoneIndex
           /\ boneNodes' = boneNodes
           /\ pc' = "scan"

KnownStillCollected ==
    (/\ ClusterScanned
     /\ cerr > 0
     /\ LastCluster'.link # 0
     /\ GetName(LastCluster'.link) \in DOMAIN boneNameToIndex)
        => /\ cerr' = cerr
           /\ Size(cpInfluences'[0]) = Size(cpInfluences[0]) + Len(LastCluster'.entries)

C10_BoneCap == [](pc = "scan" => BonesRegistered) /\ [][OverflowRejected /\ KnownStillCollected]_vars

\* the 257th name came with an entry and was rejected, and the cluster after
\* it, of a registered name, added its influence
C10_Witness ==
    /\ Size(clusters) = MaxBoneIndex + 3
    /\ nextBoneIndex = 256
    /\ cerr = 1
    /\ clusters[MaxBoneIndex + 1].link = MaxBoneIndex + 2
    /\ Len(clusters[MaxBoneIndex + 1].entries) = 1
    /\ clusters[MaxBoneIndex + 2].link = 1
    /\ Size(cpInfluences[0]) = 1

(***************************************************************************)
(* Blend study: a mesh of three or four control points, of which the       *)
(* polygons use three, with normals by polygon vertex, so that a control   *)
(* point can have several vertices, and two target shapes in one channel   *)
(* or in two.  s_doSkinning is not set.                                    *)
(***************************************************************************)
MaxBlendPolys == 2

BlendChannels ==
    {Resized(EmptyVec, 1, [name |-> 1, targetCount |-> 2]),
     PushBack(Resized(EmptyVec, 1, [name |-> 1, targetCount |-> 1]),
              [name |-> 2, targetCount |-> 1])}

BlendScenes ==
    {[NormalScene(Points(xs), {Vec3(0, 0, 1), Vec3(0, 1, 0)})
        EXCEPT !.kind = "blend", !.doBlendShapes = TRUE, !.channels = ch] :
     xs \in {<<1, 2, 3>>, <<1, 2, 3, 4>>}, ch \in BlendChannels}

InitBlend == \E sc \in BlendScenes : InitOf(sc)

\* a target shape of count control points at (0, 3, 0), (1, 3, 0), ...
\* with the normal n at each and without tangents
Shape(count, mode, n) ==
    [null |-> FALSE, count |-> count,
     points |-> [c \in 0..(count - 1) |-> Vec3(c, 3, 0)],
     normalMode |-> mode, normals |-> [c \in 0..(count - 1) |-> n],
     tangentMode |-> "none", tangents |-> [c \in 0..(count - 1) |-> ZeroVector3]]

\* no target shape, one of a control point too many, and shapes of as
\* many control points as the mesh with and without normals by control
\* point
BlendShapeInputs ==
    {[Shape(0, "none", ZeroVector3) EXCEPT !.null = TRUE],
     Shape(scene.controlPointCount + 1, "byControlPoint", Vec3(0, 0, 1)),
     Shape(scene.controlPointCount, "byControlPoint", Vec3(0, 0, 1)),
     Shape(scene.controlPointCount, "byPolygonVertex", Vec3(0, 0, 1))}

\* what the default constructor may leave in a vector
Fills == {ZeroVector3, Vec3(9, 9, 9)}

BeginBlendCorners == \E polygonCount \in 1..MaxBlendPolys : BeginCorners(polygonCount)

BlendCorner == \E sample \in scene.samples : Corner(GetPolygonVertex(p, v), sample)

ReadBlendTarget ==
    \E shape \in BlendShapeInputs, fill \in Fills, crash \in BOOLEAN :
        ReadTarget(shape, fill, crash)

NextBlend ==
    \/ ProcessMeshStart
    \/ BeginBlendCorners
    \/ BlendCorner
    \/ FinishCorners
    \/ BeginBlend
    \/ ReadBlendTarget
    \/ FinishBlend

SpecBlend == InitBlend /\ [][NextBlend]_vars

(***************************************************************************)
(* File study: the sixteen combinations of normals, tangents, uvs and      *)
(* skinning, three control points at different positions, up to            *)
(* MaxJsonPolys triangles and MaxJsonClusters clusters, followed from      *)
(* ProcessMeshToItp to the end of Mesh::WriteToJson.  A mesh without       *)
(* polygons has no vertex and no triangle to write.                        *)
(***************************************************************************)
JsonSample ==
    [normal |-> Vec3(4, 5, 6), tangent |-> Vec3(7, 8, 9), uv |-> <<F(2), F(3)>>,
     unmapped |-> FALSE]

JsonScenes ==
    {[FlatScene EXCEPT !.kind = "json", !.controlPointCount = 3, !.usedPoints = 3,
                       !.controlPoints = Points(<<1, 2, 3>>),
                       !.normalMode = nm, !.tangentMode = tm, !.hasUV = uv,
                       !.doSkinning = sk, !.samples = {JsonSample}] :
        nm \in {"none", "byPolygonVertex"}, tm \in {"none", "byPolygonVertex"},
        uv \in BOOLEAN, sk \in BOOLEAN}

InitJson == \E sc \in JsonScenes : InitOf(sc)

ScanJsonCluster ==
    /\ scene.kind = "json"
    /\ Size(clusters) < MaxJsonClusters
    /\ \E cl \in MeshClusters : ScanCluster(cl.link, IdentityMatrix, cl.entries)

BeginJsonCorners ==
    /\ scene.kind = "json"
    /\ \E polygonCount \in 0..MaxJsonPolys : BeginCorners(polygonCount)

JsonCorner ==
    /\ scene.kind = "json"
    /\ Corner(GetPolygonVertex(p, v), JsonSample)

NextJson ==
    \/ ProcessMeshStart
    \/ ScanJsonCluster
    \/ BeginPack
    \/ PackControlPoint
    \/ BeginBones
    \/ BuildBone
    \/ ReadSkinReturn
    \/ BeginJsonCorners
    \/ JsonCorner
    \/ FinishCorners
    \/ MeshWriteToJson
    \/ \E crash \in BOOLEAN : WriteVertsToJson(crash)
    \/ \E crash \in BOOLEAN : WriteIndicesToJson(crash)

SpecJson == InitJson /\ [][NextJson]_vars

(***************************************************************************)
(* Channel study: the corner pass over three control points for every      *)
(* combination of a normal element, a tangent element (none, mapped by     *)
(* polygon vertex, or mapped by polygon: a mode that GetNormalAt and       *)
(* GetTangentAt do not handle) and a uv set whose corners may be unmapped  *)
(* (the flag of FbxMesh::GetPolygonVertexUV).  No skinning.                *)
(***************************************************************************)
UnmappedSample == [Sample0 EXCEPT !.unmapped = TRUE]

ChannelModes == {"none", "byPolygonVertex", "byPolygon"}

ChannelScenes ==
    {[FlatScene EXCEPT !.kind = "channel", !.doSkinning = FALSE,
                       !.controlPointCount = 3, !.usedPoints = 3,
                       !.controlPoints = Points(<<1, 2, 3>>),
                       !.normalMode = nm, !.tangentMode = tm, !.hasUV = uv,
                       !.samples = {Sample0, UnmappedSample}] :
        nm \in ChannelModes, tm \in ChannelModes, uv \in BOOLEAN}

InitChannel == \E sc \in ChannelScenes : InitOf(sc)

BeginChannelCorners ==
    /\ scene.kind = "channel"
    /\ \E polygonCount \in 0..MaxChannelPolys : BeginCorners(polygonCount)

ChannelCorner ==
    /\ scene.kind = "channel"
    /\ \E sample \in scene.samples : Corner(GetPolygonVertex(p, v), sample)

NextChannel ==
    \/ ProcessMeshStart
    \/ BeginChannelCorners
    \/ ChannelCorner
    \/ FinishCorners

SpecChannel == InitChannel /\ [][NextChannel]_vars

(***************************************************************************)
(* Stage study: ReadSkin, the corner pass and ReadBlendShapes in one run.  *)
(* Three control points, the first two at one position, with or without    *)
(* s_doSkinning, up to MaxStageClusters clusters and MaxStagePolys         *)
(* triangles, and one channel of two target shapes.                        *)
(***************************************************************************)
StageScenes ==
    {[FlatScene EXCEPT !.kind = "stages", !.controlPointCount = 3, !.usedPoints = 3,
                       !.controlPoints = Points(<<1, 1, 2>>), !.samples = {Sample0},
                       !.doSkinning = sk, !.doBlendShapes = TRUE,
                       !.channels = Resized(EmptyVec, 1, [name |-> 1, targetCount |-> 2])] :
        sk \in BOOLEAN}

InitStages == \E sc \in StageScenes : InitOf(sc)

ScanStageCluster ==
    /\ scene.kind = "stages"
    /\ Size(clusters) < MaxStageClusters
    /\ \E cl \in MeshClusters : ScanCluster(cl.link, IdentityMatrix, cl.entries)

BeginStageCorners ==
    /\ scene.kind = "stages"
    /\ \E polygonCount \in 0..MaxStagePolys : BeginCorners(polygonCount)

StageCorner ==
    /\ scene.kind = "stages"
    /\ Corner(GetPolygonVertex(p, v), Sample0)

ReadStageTarget ==
    /\ scene.kind = "stages"
    /\ \E shape \in BlendShapeInputs, fill \in Fills, crash \in BOOLEAN :
         ReadTarget(shape, fill, crash)

NextStages ==
    \/ ProcessMeshStart
    \/ ScanStageCluster
    \/ BeginPack
    \/ PackControlPoint
    \/ BeginBones
    \/ BuildBone
    \/ ReadSkinReturn
    \/ BeginStageCorners
    \/ StageCorner
    \/ FinishCorners
    \/ BeginBlend
    \/ ReadStageTarget
    \/ FinishBlend

SpecStages == InitStages /\ [][NextStages]_vars

(***************************************************************************)
(* The corner pass, read from the corners alone.  Two vertices have the    *)
(* same key when they are equal on all key fields: the 3 floats of the     *)
(* position, of the normal and of the tangent, the 2 floats of the uv,     *)
(* the 4 bone bytes and the 4 weight bytes (floats compare as == does:     *)
(* +0.0 equals -0.0, a NaN equals nothing).                                *)
(***************************************************************************)
SameKey(a, b) ==
    /\ \A k \in 1..3 : FloatEq(a.pos[k], b.pos[k]) /\ FloatEq(a.norm[k], b.norm[k])
                        /\ FloatEq(a.tan[k], b.tan[k])
    /\ \A k \in 1..2 : FloatEq(a.uv[k], b.uv[k])
    /\ a.bones = b.bones
    /\ a.weights = b.weights

\* corner k is the first of its key
IsFirst(k) == \A j \in 0..(k - 1) : ~SameKey(corners[j].vert, corners[k].vert)

\* the first corner whose key corner k has
FirstOf(k) ==
    CHOOSE j \in 0..k :
        /\ j = k \/ SameKey(corners[j].vert, corners[k].vert)
        /\ \A m \in 0..(j - 1) : ~SameKey(corners[m].vert, corners[k].vert)

\* the number of keys met before corner k
Rank(k) == Cardinality({j \in 0..(k - 1) : IsFirst(j)})

\* the ranks of the first corners of control point c, in increasing order
RanksOf(c) == {Rank(k) : k \in {j \in DOMAIN corners : IsFirst(j) /\ corners[j].cp = c}}

Increasing(f) == \A a \in DOMAIN f, b \in DOMAIN f : a < b => f[a] < f[b]

C2_DedupCorrect ==
    \A j \in DOMAIN corners, k \in DOMAIN corners :
        /\ corners[j].vert = corners[k].vert => corners[j].index = corners[k].index
        /\ corners[j].vert # corners[k].vert => corners[j].index # corners[k].index

C5_BlendBroadcast ==
    \A b \in DOMAIN blendShapes, c \in DOMAIN outVertexMap :
        Size(outVertexMap[c]) >= 2 =>
            \A m \in DOMAIN outVertexMap[c], n \in DOMAIN outVertexMap[c] :
                blendShapes[b].deltas[outVertexMap[c][m]]
                    = blendShapes[b].deltas[outVertexMap[c][n]]

\* a BlendShape with normal deltas was made for a mesh where control point
\* 0 has two vertices of different normals: the second has the normal
\* delta of the first, and a position delta that line 88 did not leave
C5_Witness ==
    /\ Size(blendShapes) >= 1
    /\ 0 \in DOMAIN outVertexMap
    /\ Size(outVertexMap[0]) = 2
    /\ verts[outVertexMap[0][0]].norm # verts[outVertexMap[0][1]].norm
    /\ blendShapes[0].format.hasNormal
    /\ blendShapes[0].deltas[outVertexMap[0][1]].norm = Vec3(0, 0, 0)
    /\ blendShapes[0].deltas[outVertexMap[0][1]].pos # blendShapes[0].deltas[outVertexMap[0][1]].norm

(***************************************************************************)
(* The target shapes taken so far, read from targets alone.                *)
(***************************************************************************)
\* the target shape is there and has as many control points as the mesh
Matches(tg) == ~tg.shape.null /\ tg.shape.count = scene.controlPointCount

\* the target shape is there and has another number of control points
Mismatches(tg) == ~tg.shape.null /\ tg.shape.count # scene.controlPointCount

RECURSIVE MatchingTargets(_)
\* the matching ones of the first n target shapes taken, in the order taken
MatchingTargets(n) ==
    IF n = 0 THEN EmptyVec
    ELSE IF Matches(targets[n - 1]) THEN PushBack(MatchingTargets(n - 1), targets[n - 1])
         ELSE MatchingTargets(n - 1)

\* target shapes are taken channel by channel and, in a channel, in order
ScanOrder ==
    \A j \in DOMAIN targets, k \in DOMAIN targets :
        j < k => \/ targets[j].c < targets[k].c
                 \/ targets[j].c = targets[k].c /\ targets[j].t < targets[k].t

(***************************************************************************)
(* C11.  A target shape whose number of control points is not that of the  *)
(* mesh adds no BlendShape and one diagnostic, and the target shapes       *)
(* after it are still taken: out->blendShapes holds one BlendShape for     *)
(* each matching target shape taken, in the order of the scan, there is    *)
(* one diagnostic for each mismatching one, and ReadBlendShapes returns    *)
(* when all target shapes of all channels have been taken.                 *)
(***************************************************************************)
C11_MismatchSkipped ==
    /\ ScanOrder
    /\ Size(blendShapes) = Size(MatchingTargets(Size(targets)))
    /\ \A k \in DOMAIN blendShapes :
         LET tg == MatchingTargets(Size(targets))[k]
         IN  /\ blendShapes[k].name[1] = scene.channels[tg.c].name
             /\ Len(blendShapes[k].name) = 3 => blendShapes[k].name[3] = tg.t
    /\ cerr = Cardinality({k \in DOMAIN targets : Mismatches(targets[k])})
    /\ (pc = "done" /\ Size(scene.channels) > 0) => Size(targets) = TargetTotal

\* the first target shape of a channel of two had a control point too many
\* and the second was emitted
C11_Witness ==
    /\ pc = "done"
    /\ Size(targets) = 2
    /\ Mismatches(targets[0])
    /\ Matches(targets[1])
    /\ targets[1].c = targets[0].c
    /\ Size(blendShapes) = 1
    /\ cerr = 1

(***************************************************************************)
(* C12.  The deltas of every BlendShape of out->blendShapes are as many    *)
(* as the vertices of out->verts, whatever the number of control points.   *)
(***************************************************************************)
C12_DeltaLength ==
    \A b \in DOMAIN blendShapes : Size(blendShapes[b].deltas) = Size(verts)

\* a BlendShape of a mesh of three control points and five vertices
C12_Witness ==
    /\ Size(blendShapes) >= 1
    /\ scene.controlPointCount = 3
    /\ Size(verts) = 5
    /\ Size(blendShapes[0].deltas) = 5

(***************************************************************************)
(* C16.  A BlendShape has the name of its channel when the channel has     *)
(* exactly one target shape, and otherwise the name of the channel, then   *)
(* "_target", then the ordinal of its target shape in the channel, counted *)
(* from 0 over all target shapes of the channel, skipped ones included.    *)
(***************************************************************************)
C16_BlendShapeNaming ==
    \A k \in DOMAIN blendShapes :
        LET tg == MatchingTargets(Size(targets))[k]
            channel == scene.channels[tg.c]
            at == CHOOSE j \in DOMAIN targets : targets[j] = tg
            before == {j \in 0..(at - 1) : targets[j].c = tg.c}
        IN  blendShapes[k].name =
                IF channel.targetCount = 1 THEN <<channel.name>>
                ELSE <<channel.name, "_target", Cardinality(before)>>

\* the second target shape of a channel of two was emitted after the first
\* was skipped
C16_Witness ==
    /\ Size(targets) = 2
    /\ Mismatches(targets[0])
    /\ Size(blendShapes) = 1
    /\ blendShapes[0].name = <<1, "_target", 1>>

(***************************************************************************)
(* C13.  Every packed control point has exactly 4 bone bytes and 4 weight  *)
(* bytes; every slot from take on, take = min(4, number of influences of   *)
(* positive raw weight), holds bone byte 0 and weight byte 0, and a        *)
(* control point without influences has four slots (0, 0).                 *)
(***************************************************************************)
C13_FourSlots ==
    \A c \in Packed :
        LET take == Min(4, Size(RawInfluences(c))) IN
        /\ DOMAIN ctrlBones[c] = 0..3
        /\ DOMAIN ctrlWeights[c] = 0..3
        /\ \A j \in take..3 : ctrlBones[c][j] = 0 /\ ctrlWeights[c][j] = 0
        /\ Size(cpInfluences[c]) = 0 => \A j \in 0..3 : ctrlBones[c][j] = 0 /\ ctrlWeights[c][j] = 0

\* a control point of two influences was packed, the second of a bone
\* other than bone 0
C13_Witness ==
    /\ pc = "pack"
    /\ i = 1
    /\ Size(RawInfluences(0)) = 2
    /\ ctrlBones[0][1] # 0
    /\ ctrlWeights[0][1] > 0

(***************************************************************************)
(* C17.  For every packed control point whose taken influences, the first  *)
(* take = min(4, count) of the sorted list, have a total raw weight above  *)
(* 0: the weight byte of each taken influence but the last is              *)
(* weight / total * 255 rounded to the nearest integer, halves away from   *)
(* zero, and the weight byte of the last is max(0, 255 - the sum of the    *)
(* bytes before it).  Raw weights in the ratio 6 : 3 : 1 on the bones 3,   *)
(* 7 and 9 pack to the bones [3, 7, 9, 0] and the weights                  *)
(* [153, 77, 25, 0].                                                       *)
(***************************************************************************)
RECURSIVE SumFirst(_, _)
\* the sum of f[0] .. f[n - 1]
SumFirst(f, n) == IF n = 0 THEN 0 ELSE SumFirst(f, n - 1) + f[n - 1]

\* b is w / total * 255 rounded to the nearest integer, halves upward
IsRounded(b, w, total) ==
    /\ 2 * total * b <= 2 * 255 * w + total
    /\ 2 * 255 * w + total < 2 * total * (b + 1)

\* the raw influences of control point c are (3, 6u), (7, 3u), (9, u)
RatioSixThreeOne(c) ==
    LET raw == RawInfluences(c) IN
    /\ Size(raw) = 3
    /\ raw[0].first = 3 /\ raw[1].first = 7 /\ raw[2].first = 9
    /\ raw[0].second = 6 * raw[2].second
    /\ raw[1].second = 3 * raw[2].second

C17_ByteRule ==
    \A c \in Packed :
        LET inf == cpInfluences[c]
            take == Min(4, Size(inf))
            total == SumFirst([j \in DOMAIN inf |-> inf[j].second], take)
        IN  /\ total > 0 =>
                 /\ \A j \in 0..(take - 2) :
                        IsRounded(ctrlWeights[c][j], inf[j].second, total)
                 /\ LET rest == 255 - SumFirst(ctrlWeights[c], take - 1)
                    IN  ctrlWeights[c][take - 1] = IF rest < 0 THEN 0 ELSE rest
            /\ RatioSixThreeOne(c) =>
                 /\ ctrlBones[c] = [j \in 0..3 |-> IF j = 0 THEN 3 ELSE IF j = 1 THEN 7
                                                   ELSE IF j = 2 THEN 9 ELSE 0]
                 /\ ctrlWeights[c] = [j \in 0..3 |-> IF j = 0 THEN 153 ELSE IF j = 1 THEN 77
                                                     ELSE IF j = 2 THEN 25 ELSE 0]

\* the control point of the 6 : 3 : 1 scene was packed, in units of 2
C17_Witness ==
    /\ pc = "pack"
    /\ i = 1
    /\ RatioSixThreeOne(0)
    /\ RawInfluences(0)[2].second = 2
    /\ ctrlWeights[0][1] = 77

(***************************************************************************)
(* C19.  During and at the end of the cluster scan, the bind matrix held   *)
(* for a registered bone name is that of the first cluster of the name,    *)
(* in scan order, whose matrix has a translation other than zero, and      *)
(* that of the last cluster of the name when all have zero translation;    *)
(* so it is that of the first cluster unless its translation is zero.      *)
(***************************************************************************)
ClustersOf(nm) ==
    {k \in DOMAIN clusters : clusters[k].link # 0 /\ GetName(clusters[k].link) = nm}

Lowest(S) == CHOOSE k \in S : \A m \in S : k <= m
Highest(S) == CHOOSE k \in S : \A m \in S : k >= m

C19_BindMatrixKept ==
    \A nm \in DOMAIN boneNameToIndex :
        LET of == ClustersOf(nm)
            moved == {k \in of : clusters[k].bind.t # 0}
            held == boneBindMatrices[boneNameToIndex[nm]]
        IN  /\ moved # {} => held = clusters[Lowest(moved)].bind
            /\ moved = {} => held = clusters[Highest(of)].bind
            /\ clusters[Lowest(of)].bind.t # 0 => held = clusters[Lowest(of)].bind

\* three clusters of one name: the first of zero translation, the second
\* and the third of two other translations; the second is held
C19_Witness ==
    /\ Size(clusters) = 3
    /\ ClustersOf(1) = {0, 1, 2}
    /\ clusters[0].bind.t = 0
    /\ clusters[1].bind.t = 1
    /\ clusters[2].bind.t = 2
    /\ boneBindMatrices[boneNameToIndex[1]] = clusters[1].bind

(***************************************************************************)
(* C14.  When ReadSkin has returned, every bone whose parentIndex is not   *)
(* -1 has a parentIndex below its own index.                               *)
(***************************************************************************)
C14_ParentBeforeChild ==
    pc = "mesh" =>
        \A b \in DOMAIN outBones :
            outBones[b].parentIndex # -1 => outBones[b].parentIndex < b

(***************************************************************************)
(* C20.  When ReadSkin has returned, the parentIndex of every bone is the  *)
(* index registered for the name of the nearest proper ancestor of the     *)
(* bone's node whose name is a registered bone name, and -1 exactly when   *)
(* no proper ancestor has a registered bone name.                          *)
(***************************************************************************)
RECURSIVE AncestorAt(_, _)
\* the node k steps above node n in the node tree, 0 when there is none
AncestorAt(n, k) ==
    IF n = 0 THEN 0 ELSE IF k = 0 THEN n ELSE AncestorAt(scene.parent[n], k - 1)

\* how far above node n its proper ancestors of a registered name are
RegisteredAbove(n) ==
    {k \in 1..Cardinality(DOMAIN scene.parent) :
        /\ AncestorAt(n, k) # 0
        /\ scene.name[AncestorAt(n, k)] \in DOMAIN boneNameToIndex}

C20_NearestRegisteredAncestor ==
    pc = "mesh" =>
        \A b \in DOMAIN outBones :
            LET above == RegisteredAbove(boneNodes[b]) IN
            /\ above = {} <=> outBones[b].parentIndex = -1
            /\ above # {} =>
                 outBones[b].parentIndex =
                    boneNameToIndex[scene.name[AncestorAt(boneNodes[b], Lowest(above))]]

\* a bone whose node has a parent of a name that is no bone name and a
\* grandparent of another bone's name
C20_Witness ==
    /\ pc = "mesh"
    /\ \E b \in DOMAIN outBones :
         /\ RegisteredAbove(boneNodes[b]) = {2}
         /\ outBones[b].parentIndex # b
         /\ outBones[b].parentIndex # -1

(***************************************************************************)
(* C18.  The sort of ReadSkin is stable: the influences of every packed    *)
(* control point are held in non-increasing order of raw weight with the   *)
(* influences of equal raw weight in the order in which they were          *)
(* collected, and the bone bytes of the slots below take are the bones of  *)
(* the first take of them, so that of a tie across the cut the influence   *)
(* collected earlier is kept.                                              *)
(***************************************************************************)
\* the place of raw[j] after a stable sort by decreasing weight
StablePlace(raw, j) ==
    Cardinality({m \in DOMAIN raw : raw[m].second > raw[j].second})
    + Cardinality({m \in 0..(j - 1) : raw[m].second = raw[j].second})

StableSorted(raw) ==
    [k \in DOMAIN raw |-> raw[CHOOSE j \in DOMAIN raw : StablePlace(raw, j) = k]]

C18_StableSort ==
    \A c \in Packed :
        LET raw == RawInfluences(c) IN
        /\ cpInfluences[c] = StableSorted(raw)
        /\ \A j \in 0..(Min(4, Size(raw)) - 1) : ctrlBones[c][j] = StableSorted(raw)[j].first

(***************************************************************************)
(* C15: whatever the format flags (hasNormal, hasTan, hasSkin, hasUV),     *)
(* the entries of "vertexformat" and every row of "vertices" list the same *)
(* fields in the same order: position, then normal, tangent, the 4 bone    *)
(* bytes followed by the 4 weight bytes, then the uv; the fields of a flag *)
(* that is false are left out of both, no placeholder is written for them. *)
(***************************************************************************)
FieldOrder == <<"position", "normal", "tangent", "bones", "weights", "texcoord">>

FieldPresent(name) ==
    CASE name = "position" -> TRUE
      [] name = "normal" -> FormatHasNormal
      [] name = "tangent" -> FormatHasTan
      [] name \in {"bones", "weights"} -> hasSkin
      [] name = "texcoord" -> FormatHasUV

FieldWidth(name) ==
    CASE name \in {"position", "normal", "tangent"} -> 3
      [] name \in {"bones", "weights"} -> 4
      [] name = "texcoord" -> 2

FieldKind(name) == IF name \in {"bones", "weights"} THEN "integer" ELSE "float"

\* the numbers of one field of a vertex
FieldNumbers(vert, name) ==
    CASE name = "position" -> [k \in 1..3 |-> <<"float", vert.pos[k]>>]
      [] name = "normal" -> [k \in 1..3 |-> <<"float", vert.norm[k]>>]
      [] name = "tangent" -> [k \in 1..3 |-> <<"float", vert.tan[k]>>]
      [] name = "bones" -> [k \in 1..4 |-> <<"integer", vert.bones[k - 1]>>]
      [] name = "weights" -> [k \in 1..4 |-> <<"integer", vert.weights[k - 1]>>]
      [] name = "texcoord" -> [k \in 1..2 |-> <<"float", vert.uv[k]>>]

RECURSIVE RowOf(_, _)
RowOf(vert, names) ==
    IF names = <<>> THEN <<>>
    ELSE FieldNumbers(vert, Head(names)) \o RowOf(vert, Tail(names))

RECURSIVE KindsOf(_)
KindsOf(entries) ==
    IF entries = <<>> THEN <<>>
    ELSE [k \in 1..Head(entries).count |-> FieldKind(Head(entries).name)]
         \o KindsOf(Tail(entries))

WrittenNames == [k \in 1..Len(ofs.vertexformat) |-> ofs.vertexformat[k].name]

C15_SameFieldsSameOrder ==
    ofs.vertexformat # <<>> =>
        /\ WrittenNames = SelectSeq(FieldOrder, FieldPresent)
        /\ \A k \in 1..Len(ofs.vertexformat) :
             /\ ofs.vertexformat[k].count = FieldWidth(WrittenNames[k])
             /\ ofs.vertexformat[k].type =
                  (IF FieldKind(WrittenNames[k]) = "integer" THEN "byte" ELSE "float")
        /\ \A r \in 1..Len(ofs.vertices) :
             /\ [k \in 1..Len(ofs.vertices[r]) |-> ofs.vertices[r][k][1]]
                  = KindsOf(ofs.vertexformat)
             /\ r <= Size(verts) => ofs.vertices[r] = RowOf(verts[r - 1], WrittenNames)

\* a mesh with skin and uvs but neither normals nor tangents whose three
\* vertices are written as rows of 13 numbers, bone 1 among them
C15_Witness ==
    /\ pc = "written"
    /\ hasSkin /\ FormatHasUV /\ ~FormatHasNormal /\ ~FormatHasTan
    /\ Len(ofs.vertices) = 3
    /\ Len(ofs.vertices[1]) = 13
    /\ ofs.vertices[2][4] = <<"integer", 1>>
    /\ WrittenNames = <<"position", "bones", "weights", "texcoord">>

(***************************************************************************)
(* C21: when the corner pass has ended, every control point that some      *)
(* corner refers to and whose corners all got one index of the vertex      *)
(* buffer has a list of exactly one entry in out->vertexMap, that index;   *)
(* also when two control points of equal attributes share one vertex.      *)
(***************************************************************************)
CornersOf(c) == {k \in DOMAIN corners : corners[k].cp = c}
IndicesOf(c) == {corners[k].index : k \in CornersOf(c)}
MapList(c) == IF c \in DOMAIN outVertexMap THEN outVertexMap[c] ELSE EmptyVec
CornerPassEnded == pc \in {"blend", "done"}

C21_SingleEntryList ==
    CornerPassEnded =>
        \A c \in 0..(scene.controlPointCount - 1) :
            (CornersOf(c) # {} /\ Cardinality(IndicesOf(c)) = 1) =>
                /\ Size(MapList(c)) = 1
                /\ MapList(c)[0] \in IndicesOf(c)

(***************************************************************************)
(* C22: within one mesh the zero vector (normal, tangent) or zero uv of a  *)
(* candidate is decided once per channel: either the candidate of every    *)
(* corner has the zero placeholder of the channel or none has, and the     *)
(* choice agrees with the format flag of the channel (hasNormal, hasTan,   *)
(* hasUV): placeholder exactly when the flag is false.                     *)
(***************************************************************************)
PlaceholderNormal(k) == ~ElementValueAt(scene.normalMode)
PlaceholderTangent(k) == ~ElementValueAt(scene.tangentMode)
PlaceholderUV(k) == ~UVAt(corners[k].sample)

C22_PlaceholderPerMesh ==
    \A k \in DOMAIN corners :
        /\ PlaceholderNormal(k) <=> ~FormatHasNormal
        /\ PlaceholderTangent(k) <=> ~FormatHasTan
        /\ PlaceholderUV(k) <=> ~FormatHasUV

(***************************************************************************)
(* C23: a BlendShape has normal deltas (format.hasNormal, and at the       *)
(* representative of control point i the normal of the target shape at i   *)
(* minus the normal of the representative) exactly when the mesh and the   *)
(* target shape both have their normals by control point, and has none     *)
(* otherwise; the same for tangents.                                       *)
(***************************************************************************)
SourceOf(b) == MatchingTargets(Size(targets))[b].shape

NormalDeltasAt(b) ==
    \A c \in DOMAIN outVertexMap :
        Size(outVertexMap[c]) > 0 =>
            blendShapes[b].deltas[outVertexMap[c][0]].norm
                = Vec3Sub(SourceOf(b).normals[c], verts[outVertexMap[c][0]].norm)

TangentDeltasAt(b) ==
    \A c \in DOMAIN outVertexMap :
        Size(outVertexMap[c]) > 0 =>
            blendShapes[b].deltas[outVertexMap[c][0]].tan
                = Vec3Sub(SourceOf(b).tangents[c], verts[outVertexMap[c][0]].tan)

C23_DeltasWhenBothByControlPoint ==
    \A b \in DOMAIN blendShapes :
        /\ blendShapes[b].format.hasNormal
             <=> (scene.normalMode = "byControlPoint"
                  /\ SourceOf(b).normalMode = "byControlPoint")
        /\ blendShapes[b].format.hasTan
             <=> (scene.tangentMode = "byControlPoint"
                  /\ SourceOf(b).tangentMode = "byControlPoint")
        /\ blendShapes[b].format.hasNormal => NormalDeltasAt(b)
        /\ blendShapes[b].format.hasTan => TangentDeltasAt(b)

(***************************************************************************)
(* C24: ReadBlendShapes leaves what the corner pass made as it is: no step *)
(* of it changes out->verts, out->indices or out->vertexMap (its keys and  *)
(* each of its lists), also when a control point has no entry in the map.  *)
(***************************************************************************)
InReadBlendShapes == pc \in {"blend", "targets"}

C24_BlendLeavesMeshUnchanged ==
    [][InReadBlendShapes => UNCHANGED <<verts, indices, outVertexMap>>]_vars

(***************************************************************************)
(* C25: the stages of one mesh run in a fixed order and none is entered    *)
(* twice: the bone list and the packed influences of all control points    *)
(* are complete before the first corner is deduplicated and are not        *)
(* written afterwards; the corner pass has ended before the first          *)
(* BlendShape is made, and from the start of ReadBlendShapes on no vertex  *)
(* is appended to out->verts and no index to a list of out->vertexMap.     *)
(***************************************************************************)
StageRank(at) ==
    CASE at = "start" -> 0
      [] at = "scan" -> 1
      [] at = "pack" -> 2
      [] at = "bones" -> 3
      [] at = "mesh" -> 4
      [] at = "corners" -> 5
      [] at = "blend" -> 6
      [] at = "targets" -> 7
      [] at \in {"done", "crashed"} -> 8

\* ReadSkin has returned with every control point packed and every bone built
SkinComplete ==
    /\ StageRank(pc) >= 4
    /\ scene.doSkinning =>
         /\ Size(ctrlBones) = GetControlPointsCount
         /\ Size(ctrlWeights) = GetControlPointsCount
         /\ i = GetControlPointsCount
         /\ Size(outBones) = nextBoneIndex
         /\ bi = nextBoneIndex

\* the indices that the lists of out->vertexMap hold, with their places
MapEntries ==
    UNION {{<<c, n, outVertexMap[c][n]>> : n \in DOMAIN outVertexMap[c]} :
              c \in DOMAIN outVertexMap}

C25_StagesInOrder ==
    [][/\ StageRank(pc') >= StageRank(pc)
       /\ corners' # corners =>
            SkinComplete /\ UNCHANGED <<outBones, ctrlBones, ctrlWeights, hasSkin>>
       /\ corners # EmptyVec => UNCHANGED <<outBones, ctrlBones, ctrlWeights, hasSkin>>
       /\ blendShapes' # blendShapes => p = Size(indices) /\ pc = "targets"
       /\ (StageRank(pc) >= 6 \/ blendShapes # EmptyVec) =>
            /\ UNCHANGED <<verts, indices, corners>>
            /\ MapEntries' = MapEntries]_vars

\* a skinned mesh with three corners deduplicated and two BlendShapes made
C25_Witness ==
    /\ pc = "done"
    /\ hasSkin
    /\ Size(outBones) = 1
    /\ Size(corners) = 3
    /\ Size(verts) >= 2
    /\ Size(blendShapes) = 2

(***************************************************************************)
(* C26: for every target shape of the mesh's number of control points the  *)
(* read out->vertexMap[i][0] of ReadBlendShapes is defined for every       *)
(* control point i: each control point, also one that no corner refers to  *)
(* or whose corners all found the vertex of another control point, has a   *)
(* list of at least one index when the corner pass has ended.              *)
(***************************************************************************)
C26_RepresentativeDefined ==
    /\ pc # "crashed"
    /\ (\E k \in DOMAIN targets : Matches(targets[k])) => NoRepresentative = {}

(***************************************************************************)
(* C27: after any number of corners, the lists of out->vertexMap divide    *)
(* the indices of out->verts among the control points: every index         *)
(* 0..N-1 is in exactly one list, once; each list is strictly increasing;  *)
(* every vertex in the list of control point c has the position of c.      *)
(***************************************************************************)
C27_MapPartitionsVerts ==
    /\ \A e \in MapEntries : e[3] \in DOMAIN verts
    /\ \A n \in DOMAIN verts : Cardinality({e \in MapEntries : e[3] = n}) = 1
    /\ \A c \in DOMAIN outVertexMap :
         \A m \in DOMAIN outVertexMap[c], n \in DOMAIN outVertexMap[c] :
             m < n => outVertexMap[c][m] < outVertexMap[c][n]
    /\ \A e \in MapEntries : verts[e[3]].pos = scene.controlPoints[e[1]]

\* in the middle of the second triangle: four vertices, two of them of one
\* control point, and control points at different positions
C27_Witness ==
    /\ pc = "corners"
    /\ p = 1 /\ v = 1
    /\ Size(verts) = 4
    /\ \E c \in DOMAIN outVertexMap : Size(outVertexMap[c]) = 2
    /\ \E c \in DOMAIN outVertexMap, d \in DOMAIN outVertexMap :
         scene.controlPoints[c] # scene.controlPoints[d]

(***************************************************************************)
(* C28: every vertex of out->verts has the packed influence of the control *)
(* point it was made from.  With s_doSkinning set and skin data reported   *)
(* by ReadSkin, every vertex in the list of control point c has the 4 bone *)
(* bytes and the 4 weight bytes packed for c; without skinning or without  *)
(* skin data, the 8 bytes of every vertex are 0.                           *)
(***************************************************************************)
C28_VertexCarriesInfluence ==
    IF scene.doSkinning /\ hasSkin
    THEN \A e \in MapEntries :
            /\ verts[e[3]].bones = ctrlBones[e[1]]
            /\ verts[e[3]].weights = ctrlWeights[e[1]]
    ELSE \A k \in DOMAIN verts :
            /\ verts[k].bones = ZeroBytes
            /\ verts[k].weights = ZeroBytes

\* two bones: the vertex of control point 1 has bone 1 at full weight, that
\* of control point 0 bone 0, and that of control point 2 no weight
C28_Witness ==
    /\ hasSkin
    /\ Size(verts) = 3
    /\ \A c \in 0..2 : c \in DOMAIN outVertexMap /\ Size(outVertexMap[c]) = 1
    /\ verts[outVertexMap[1][0]].bones[0] = 1
    /\ verts[outVertexMap[1][0]].weights[0] = 255
    /\ verts[outVertexMap[0][0]].weights[0] = 255
    /\ verts[outVertexMap[2][0]].weights = ZeroBytes

(***************************************************************************)
(* C29: when ReadSkin has returned, every packed bone byte of a taken      *)
(* influence (a slot below take of a control point whose total is above 0) *)
(* is an index of the bone list (below outBones.size()), the bone list has *)
(* exactly one bone for each registered bone name, and the bone at index i *)
(* has the i-th distinct link name of the cluster scan.                    *)
(***************************************************************************)
RECURSIVE LinkNames(_)
\* the distinct names of the nodes linked by the first n clusters, in order
LinkNames(n) ==
    IF n = 0 THEN EmptyVec
    ELSE LET before == LinkNames(n - 1)
             link == clusters[n - 1].link
         IN  IF link = 0 \/ \E k \in DOMAIN before : before[k] = GetName(link)
             THEN before
             ELSE PushBack(before, GetName(link))

C29_BoneBytesValid ==
    pc = "mesh" =>
        /\ \A c \in DOMAIN ctrlBones :
             HasTotal(cpInfluences[c]) =>
                 \A j \in 0..(Take(cpInfluences[c]) - 1) : ctrlBones[c][j] < Size(outBones)
        /\ Size(outBones) = Cardinality(DOMAIN boneNameToIndex)
        /\ \A n \in DOMAIN boneNameToIndex :
             Cardinality({b \in DOMAIN outBones : outBones[b].name = n}) = 1
        /\ Size(outBones) = Size(LinkNames(Size(clusters)))
        /\ \A b \in DOMAIN outBones : outBones[b].name = LinkNames(Size(clusters))[b]

\* two clusters of nodes of different names, the second influence packed
\* with bone 1, and a bone list of two
C29_Witness ==
    /\ pc = "mesh"
    /\ Size(clusters) = 2
    /\ Size(outBones) = 2
    /\ outBones[0].name # outBones[1].name
    /\ HasTotal(cpInfluences[0])
    /\ Take(cpInfluences[0]) = 2
    /\ \E j \in 0..1 : ctrlBones[0][j] = 1

(***************************************************************************)
(* C30: the packed weight bytes of every control point do not increase     *)
(* from slot to slot (byte 0 >= byte 1 >= byte 2 >= byte 3): the last      *)
(* taken slot, set to 255 - acc, is never above the byte of an influence   *)
(* ranked before it.                                                       *)
(***************************************************************************)
C30_WeightBytesNonIncreasing ==
    \A c \in DOMAIN ctrlWeights :
        \A j \in 0..2 : ctrlWeights[c][j] >= ctrlWeights[c][j + 1]

====
